---------------------------- MODULE Spec2Model ----------------------------
(***************************************************************************)
(* Model of exercises/laser_loc/laser_loc.py: the message translations,    *)
(* the two subscriber adapters (ListenerLaser, ListenerPose3d), the        *)
(* publisher adapter (PublisherMotors) and the configuration part of main. *)
(*                                                                         *)
(* Units.  Angles are whole degrees (pi is 180); atan2 and asin are        *)
(* computed from tangent / sine tables and truncated toward zero to a      *)
(* whole degree.  Time stamps are integer nanoseconds.  Velocities and     *)
(* configured limits are integers in tenths (0.5 is 5, 5 is 50).  A        *)
(* quaternion is given by integer homogeneous coordinates: <<w,x,y,z>>     *)
(* stands for the unit quaternion <<w,x,y,z>> / sqrt(w*w+x*x+y*y+z*z).     *)
(***************************************************************************)
EXTENDS Integers, Sequences, FiniteSets

(***************************************************************************)
(* Bounds of the model.                                                    *)
(***************************************************************************)
QMax == 1          \* quaternion coordinates range over -QMax..QMax
MaxVal == 1        \* velocities sent range over 0..MaxVal
NumMsg == 2        \* distinct messages a topic carries
MaxCallbacks == 3  \* callbacks that run to the store
MaxSubs == 2       \* subscriptions a listener creates
MaxCfg == 6        \* configured limits range over 0..MaxCfg

(***************************************************************************)
(* math: pi, atan2, asin                                                   *)
(***************************************************************************)
Pi == 180

Abs(n) == IF n < 0 THEN -n ELSE n

TanTab ==
 << 0, 174, 349, 524, 699, 874, 1051, 1227, 1405, 1583, 1763, 1943, 2125,
    2308, 2493, 2679, 2867, 3057, 3249, 3443, 3639, 3838, 4040, 4244, 4452,
    4663, 4877, 5095, 5317, 5543, 5773, 6008, 6248, 6494, 6745, 7002, 7265,
    7535, 7812, 8097, 8390, 8692, 9004, 9325, 9656, 9999, 10355, 10723,
    11106, 11503, 11917, 12348, 12799, 13270, 13763, 14281, 14825, 15398,
    16003, 16642, 17320, 18040, 18807, 19626, 20503, 21445, 22460, 23558,
    24750, 26050, 27474, 29042, 30776, 32708, 34874, 37320, 40107, 43314,
    47046, 51445, 56712, 63137, 71153, 81443, 95143, 114300, 143006,
    190811, 286362, 572899 >>

SinTab ==
 << 0, 174, 348, 523, 697, 871, 1045, 1218, 1391, 1564, 1736, 1908, 2079,
    2249, 2419, 2588, 2756, 2923, 3090, 3255, 3420, 3583, 3746, 3907, 4067,
    4226, 4383, 4539, 4694, 4848, 4999, 5150, 5299, 5446, 5591, 5735, 5877,
    6018, 6156, 6293, 6427, 6560, 6691, 6819, 6946, 7071, 7193, 7313, 7431,
    7547, 7660, 7771, 7880, 7986, 8090, 8191, 8290, 8386, 8480, 8571, 8660,
    8746, 8829, 8910, 8987, 9063, 9135, 9205, 9271, 9335, 9396, 9455, 9510,
    9563, 9612, 9659, 9702, 9743, 9781, 9816, 9848, 9876, 9902, 9925, 9945,
    9961, 9975, 9986, 9993, 9998, 10000 >>

Max(S) == CHOOSE m \in S : \A n \in S : n <= m

\* atan(y/x) in whole degrees for y >= 0, x > 0: the largest k with
\* tan(k) <= y/x.  TanTab[k+1] is tan(k degrees) * 10000.
AtanQ1(y, x) == Max({k \in 0..89 : TanTab[k + 1] * x <= y * 10000})

\* math.atan2(y, x), in whole degrees, in -180..180; atan2(0, 0) is 0.
atan2(y, x) ==
    IF x > 0 THEN (IF y >= 0 THEN AtanQ1(y, x) ELSE -AtanQ1(-y, x))
    ELSE IF x = 0 THEN (IF y > 0 THEN Pi \div 2
                        ELSE IF y < 0 THEN -(Pi \div 2) ELSE 0)
    ELSE (IF y >= 0 THEN Pi - AtanQ1(y, -x) ELSE AtanQ1(-y, -x) - Pi)

\* math.asin(num/den), in whole degrees, for den > 0 and |num| <= den.
\* SinTab[k+1] is sin(k degrees) * 10000.
asin(num, den) ==
    LET a == Max({k \in 0..90 : SinTab[k + 1] * den <= Abs(num) * 10000})
    IN  IF num >= 0 THEN a ELSE -a

(***************************************************************************)
(* Quaternion to Euler angles                                              *)
(***************************************************************************)
\* the two intermediate terms of quat2Yaw
rotateZa0(qw, qx, qy, qz) == 2 * (qx * qy + qw * qz)
rotateZa1(qw, qx, qy, qz) == qw * qw + qx * qx - qy * qy - qz * qz

quat2Yaw(qw, qx, qy, qz) ==
    LET a0 == rotateZa0(qw, qx, qy, qz)
        a1 == rotateZa1(qw, qx, qy, qz)
    IN  IF a0 # 0 /\ a1 # 0 THEN atan2(a0, a1) ELSE 0

\* rotateYa0 = -2.0*(qx*qz - qw*qy) of the unit quaternion is
\* PitchNum / Norm2 in homogeneous coordinates.
Norm2(qw, qx, qy, qz) == qw * qw + qx * qx + qy * qy + qz * qz
PitchNum(qw, qx, qy, qz) == -2 * (qx * qz - qw * qy)

quat2Pitch(qw, qx, qy, qz) ==
    LET num == PitchNum(qw, qx, qy, qz)
        den == Norm2(qw, qx, qy, qz)
    IN  IF num >= den THEN Pi \div 2
        ELSE IF num <= -den THEN -(Pi \div 2)
        ELSE asin(num, den)

\* the two intermediate terms of quat2Roll
rotateXa0(qw, qx, qy, qz) == 2 * (qy * qz + qw * qx)
rotateXa1(qw, qx, qy, qz) == qw * qw - qx * qx - qy * qy + qz * qz

quat2Roll(qw, qx, qy, qz) ==
    LET a0 == rotateXa0(qw, qx, qy, qz)
        a1 == rotateXa1(qw, qx, qy, qz)
    IN  IF a0 # 0 /\ a1 # 0 THEN atan2(a0, a1) ELSE 0

(***************************************************************************)
(* Message types and translations                                          *)
(***************************************************************************)
\* LaserData(): the default-constructed value a ListenerLaser starts with
LaserData ==
    [values |-> << >>, minAngle |-> 0, maxAngle |-> 0,
     minRange |-> 0, maxRange |-> 0, timeStamp |-> 0]

\* Pose3d(): the default-constructed value a ListenerPose3d starts with
Pose3d ==
    [x |-> 0, y |-> 0, z |-> 0, yaw |-> 0, pitch |-> 0, roll |-> 0,
     q |-> <<0, 0, 0, 0>>, timeStamp |-> 0]

\* The i-th LaserScan the laser topic carries.
LaserScan(i) ==
    [ranges |-> <<i, i + 1>>, angle_min |-> -(Pi \div 2), angle_max |-> Pi \div 2,
     range_min |-> 0, range_max |-> 10 * i, secs |-> 1, nsecs |-> 500 * i]

\* The i-th Odometry the pose topic carries: orientations are the identity,
\* a half turn about z, a quarter turn about z, a quarter turn about x, ...
Orientations == << <<1, 0, 0, 0>>, <<0, 0, 0, 1>>, <<1, 0, 0, 1>>, <<1, 1, 0, 0>> >>
Odometry(i) ==
    [px |-> i, py |-> 2 * i, pz |-> 0,
     ori |-> Orientations[((i - 1) % Len(Orientations)) + 1],
     secs |-> 1, nsecs |-> 500 * i]

NanoPerSec == 1000000000

laserScan2LaserData(scan) ==
    [values |-> scan.ranges,
     minAngle |-> scan.angle_min + Pi \div 2,
     maxAngle |-> scan.angle_max + Pi \div 2,
     maxRange |-> scan.range_max,
     minRange |-> scan.range_min,
     timeStamp |-> scan.secs * NanoPerSec + scan.nsecs]

odometry2Pose3D(odom) ==
    LET ori == odom.ori
    IN  [x |-> odom.px, y |-> odom.py, z |-> odom.pz,
         yaw |-> quat2Yaw(ori[1], ori[2], ori[3], ori[4]),
         pitch |-> quat2Pitch(ori[1], ori[2], ori[3], ori[4]),
         roll |-> quat2Roll(ori[1], ori[2], ori[3], ori[4]),
         q |-> <<ori[1], ori[2], ori[3], ori[4]>>,
         timeStamp |-> odom.secs * NanoPerSec + odom.nsecs]

\* CMDVel(): the default-constructed command a PublisherMotors starts with
CMDVel == [vx |-> 0, vy |-> 0, vz |-> 0, ax |-> 0, ay |-> 0, az |-> 0]

\* Twist(): the message cmdvel2Twist starts from
Twist == [linear |-> [x |-> 0, y |-> 0, z |-> 0],
          angular |-> [x |-> 0, y |-> 0, z |-> 0]]

\* The k-th assignment of cmdvel2Twist, k in 1..6.
cmdvel2TwistStep(tw, vel, k) ==
    CASE k = 1 -> [tw EXCEPT !.linear.x = vel.vx]
      [] k = 2 -> [tw EXCEPT !.linear.y = vel.vy]
      [] k = 3 -> [tw EXCEPT !.linear.z = vel.vz]
      [] k = 4 -> [tw EXCEPT !.angular.x = vel.ax]
      [] k = 5 -> [tw EXCEPT !.angular.y = vel.ay]
      [] k = 6 -> [tw EXCEPT !.angular.z = vel.az]

\* cmdvel2Twist on a command that does not change while it runs.
cmdvel2Twist(vel) ==
    [linear |-> [x |-> vel.vx, y |-> vel.vy, z |-> vel.vz],
     angular |-> [x |-> vel.ax, y |-> vel.ay, z |-> vel.az]]

(***************************************************************************)
(* State                                                                   *)
(***************************************************************************)
VARIABLES
    \* quaternion conversion
    qpc,            \* "input" | "done"
    quat,           \* the orientation <<w, x, y, z>> handed to the conversions
    angles,         \* [yaw, pitch, roll] computed from quat
    \* main
    mpc,            \* "main" before the motors client is built, "run" after
    cfgW, cfgV,     \* LaserLoc.Motors.maxW / maxV of the configuration file
    maxW, maxV,     \* PublisherMotors.maxW / maxV
    ret,            \* what the last getMaxW() / getMaxV() returned
    \* PublisherMotors
    heap,           \* the CMDVel objects: 0 is the constructor's, the others the caller's
    data,           \* self.data: a reference into heap
    mlock,          \* self.lock: "free" or its holder
    ppc,            \* where publish() is
    pvel,           \* the argument of cmdvel2Twist: the reference read from self.data
    pidx,           \* the next assignment of cmdvel2Twist
    tw,             \* the Twist publish() builds
    cmdHist,        \* the values the stored command had while publish() built tw
    spc,            \* where the sending thread is
    sop, sarg,      \* the send it runs (or ran last) and its argument
    kill_event,     \* self.kill_event
    thread_started, \* self.thread has been started (threading.Thread allows it once)
    pub_registered, \* self.pub is registered
    stopCalled,     \* stop() has been called
    lastCall,       \* the last lifecycle call: "init", "start", "stop"
    startRaised,    \* the last start() raised
    \* ListenerLaser / ListenerPose3d
    lkind,          \* "laser" or "pose3d"
    ldata,          \* self.data
    lsub,           \* self.sub: the subscription start() made last
    registered,     \* the subscriptions registered with the middleware
    nsubs,          \* subscriptions made so far
    llock,          \* self.lock: "free" or its holder
    cbpc, cbmsg, cblocal,   \* per callback thread: position, message, translated value
    rdpc, rdlocal, rdstamp, \* per reader: position, value read, its store number
    ncb,            \* callbacks begun
    nstore,         \* stores done: the store number of ldata
    completed,      \* the message of the callback that completed last (0: none)
    lastRet,        \* the store number of the value returned last
    lastLife        \* the listener's last lifecycle call: "start" or "stop"

quatVars == <<qpc, quat, angles>>
mainVars == <<mpc, cfgW, cfgV, maxW, maxV, ret>>
pubVars == <<ppc, pvel, pidx, tw, cmdHist, mlock>>
sendVars == <<heap, data, spc, sop, sarg>>
lifeVars == <<kill_event, thread_started, pub_registered, stopCalled, lastCall,
              startRaised>>
lisVars == <<lkind, ldata, lsub, registered, nsubs, llock, cbpc, cbmsg, cblocal,
             rdpc, rdlocal, rdstamp, ncb, nstore, completed, lastRet, lastLife>>
vars == <<quatVars, mainVars, pubVars, sendVars, lifeVars, lisVars>>

(***************************************************************************)
(* Quaternion conversion: the orientation part of odometry2Pose3D          *)
(***************************************************************************)
QRange == (-QMax)..QMax
\* every orientation but the zero vector, which is no quaternion of a rotation
Quats == {q \in QRange \X QRange \X QRange \X QRange : q # <<0, 0, 0, 0>>}

NoAngles == [yaw |-> 0, pitch |-> 0, roll |-> 0]

QuatInit == qpc = "input" /\ quat \in Quats /\ angles = NoAngles
QuatRest == qpc = "done" /\ quat = <<1, 0, 0, 0>> /\ angles = NoAngles

\* lines 360-362 of odometry2Pose3D
Convert ==
    /\ qpc = "input"
    /\ angles' = [yaw |-> quat2Yaw(quat[1], quat[2], quat[3], quat[4]),
                  pitch |-> quat2Pitch(quat[1], quat[2], quat[3], quat[4]),
                  roll |-> quat2Roll(quat[1], quat[2], quat[3], quat[4])]
    /\ qpc' = "done"
    /\ UNCHANGED <<quat, mainVars, pubVars, sendVars, lifeVars, lisVars>>

(***************************************************************************)
(* PublisherMotors: lifecycle                                              *)
(***************************************************************************)
\* start(): clear the kill event, then start the thread; threading.Thread
\* raises RuntimeError when it is started a second time.
StartBody ==
    /\ kill_event' = FALSE
    /\ IF thread_started
       THEN startRaised' = TRUE /\ UNCHANGED thread_started
       ELSE startRaised' = FALSE /\ thread_started' = TRUE

MotorsStart ==
    /\ mpc = "run"
    /\ StartBody
    /\ lastCall' = "start"
    /\ UNCHANGED <<pub_registered, stopCalled>>
    /\ UNCHANGED <<quatVars, mainVars, pubVars, sendVars, lisVars>>

MotorsStop ==
    /\ mpc = "run"
    /\ kill_event' = TRUE
    /\ pub_registered' = FALSE
    /\ stopCalled' = TRUE
    /\ lastCall' = "stop"
    /\ UNCHANGED <<thread_started, startRaised>>
    /\ UNCHANGED <<quatVars, mainVars, pubVars, sendVars, lisVars>>

(***************************************************************************)
(* main: the motors limits, and the construction of the motors client      *)
(***************************************************************************)
DefaultMaxW == 5
DefaultMaxV == 50

Absent == [provided |-> FALSE, value |-> 0]
Cfg == {Absent} \cup {[provided |-> TRUE, value |-> v] : v \in 0..MaxCfg}

\* cfg.getPropertyWithDefault(name, default): the configured value, or the
\* default when the file has none
getPropertyWithDefault(c, default) == IF c.provided THEN c.value ELSE default

\* "if not maxW: maxW = default": a number is false exactly when it is 0
OrDefault(v, default) == IF v = 0 THEN default ELSE v

NoRet == [op |-> "none", value |-> 0]

MainInit ==
    /\ mpc = "main" /\ cfgW \in Cfg /\ cfgV \in Cfg
    /\ maxW = 0 /\ maxV = 0 /\ ret = NoRet
MainRest ==
    /\ mpc = "run" /\ cfgW = Absent /\ cfgV = Absent
    /\ maxW = DefaultMaxW /\ maxV = DefaultMaxV /\ ret = NoRet

\* the state PublisherMotors.__init__ leaves, up to its call of start()
LifeInit ==
    /\ kill_event = FALSE /\ thread_started = FALSE /\ pub_registered = FALSE
    /\ stopCalled = FALSE /\ lastCall = "none" /\ startRaised = FALSE
\* the state after PublisherMotors.__init__
LifeBuilt ==
    /\ kill_event = FALSE /\ thread_started = TRUE /\ pub_registered = TRUE
    /\ stopCalled = FALSE /\ lastCall = "init" /\ startRaised = FALSE

\* main, lines 443-454, with PublisherMotors.__init__ (lines 148-160)
Main ==
    /\ mpc = "main"
    /\ maxW' = OrDefault(getPropertyWithDefault(cfgW, DefaultMaxW), DefaultMaxW)
    /\ maxV' = OrDefault(getPropertyWithDefault(cfgV, DefaultMaxV), DefaultMaxV)
    /\ pub_registered' = TRUE
    /\ StartBody
    /\ lastCall' = "init"
    /\ mpc' = "run"
    /\ UNCHANGED <<cfgW, cfgV, ret, stopCalled>>
    /\ UNCHANGED <<quatVars, pubVars, sendVars, lisVars>>

getMaxW ==
    /\ mpc = "run"
    /\ ret' = [op |-> "getMaxW", value |-> maxW]
    /\ UNCHANGED <<mpc, cfgW, cfgV, maxW, maxV>>
    /\ UNCHANGED <<quatVars, pubVars, sendVars, lifeVars, lisVars>>

getMaxV ==
    /\ mpc = "run"
    /\ ret' = [op |-> "getMaxV", value |-> maxV]
    /\ UNCHANGED <<mpc, cfgW, cfgV, maxW, maxV>>
    /\ UNCHANGED <<quatVars, pubVars, sendVars, lifeVars, lisVars>>

(***************************************************************************)
(* PublisherMotors: publish() and the sends                                *)
(***************************************************************************)
Vals == 0..MaxVal
\* the CMDVel objects: 0 is the one the constructor makes (line 152), 1 is
\* the one the caller builds and hands to sendVelocities
VelObjs == {1}
Objs == {0} \cup VelObjs

\* the commands a caller builds for sendVelocities: one linear and one angular speed
VelInputs ==
    {[vx |-> l, vy |-> l, vz |-> l, ax |-> a, ay |-> a, az |-> a] : l, a \in Vals}

\* the stored command
Command == heap[data]

PubRest ==
    /\ ppc = "idle" /\ pvel = 0 /\ pidx = 1 /\ tw = Twist /\ cmdHist = {}
    /\ mlock = "free"
\* self.data = CMDVel() (line 152); the caller's CMDVel objects exist beside it
SendInit ==
    /\ heap \in {h \in [Objs -> VelInputs \cup {CMDVel}] :
                   h[0] = CMDVel /\ \A o \in VelObjs : h[o] \in VelInputs}
    /\ data = 0
    /\ spc = "idle" /\ sop = "none" /\ sarg = 0
SendRest ==
    /\ heap = [o \in Objs |-> CMDVel] /\ data = 0
    /\ spc = "idle" /\ sop = "none" /\ sarg = 0

\* publish() is called
PubCall ==
    /\ mpc = "run" /\ ppc = "idle"
    /\ ppc' = "acquire"
    /\ UNCHANGED <<pvel, pidx, tw, cmdHist, mlock>>
    /\ UNCHANGED <<quatVars, mainVars, sendVars, lifeVars, lisVars>>

\* line 166: self.lock.acquire(); then line 167 reads self.data, the
\* argument of cmdvel2Twist, and makes the Twist (line 125)
PubAcquire_nolock ==
    /\ ppc = "acquire"
    /\ ppc' = "convert" /\ pvel' = data /\ pidx' = 1 /\ tw' = Twist
    /\ cmdHist' = {Command}
    /\ UNCHANGED mlock
    /\ UNCHANGED <<quatVars, mainVars, sendVars, lifeVars, lisVars>>

PubAcquire ==
    /\ ppc = "acquire" /\ mlock = "free"
    /\ mlock' = "publish"
    /\ ppc' = "convert" /\ pvel' = data /\ pidx' = 1 /\ tw' = Twist
    /\ cmdHist' = {Command}
    /\ UNCHANGED <<quatVars, mainVars, sendVars, lifeVars, lisVars>>

\* line 167: one assignment of cmdvel2Twist (lines 126-131)
PubConvert ==
    /\ ppc = "convert"
    /\ tw' = cmdvel2TwistStep(tw, heap[pvel], pidx)
    /\ IF pidx = 6 THEN ppc' = "release" /\ pidx' = 1
                   ELSE ppc' = "convert" /\ pidx' = pidx + 1
    /\ UNCHANGED <<pvel, cmdHist, mlock>>
    /\ UNCHANGED <<quatVars, mainVars, sendVars, lifeVars, lisVars>>

\* lines 168-169: self.lock.release(); self.pub.publish(tw).  tw is local
\* and goes to the transport, which sends it when the publisher is
\* registered and raises when it is not; publish() returns.
PubRelease ==
    /\ ppc = "release"
    /\ mlock' = "free"
    /\ ppc' = "idle" /\ pvel' = 0 /\ tw' = Twist /\ cmdHist' = {}
    /\ UNCHANGED pidx
    /\ UNCHANGED <<quatVars, mainVars, sendVars, lifeVars, lisVars>>

\* a send is called: op names the method that takes the lock
SendCall(op, arg) ==
    /\ mpc = "run" /\ spc = "idle"
    /\ spc' = "acquire" /\ sop' = op /\ sarg' = arg
    /\ UNCHANGED <<heap, data>>
    /\ UNCHANGED <<quatVars, mainVars, pubVars, lifeVars, lisVars>>

sendVelocities == \E o \in VelObjs : SendCall("sendVelocities", o)
sendVX == \E v \in Vals : SendCall("sendVX", v)
sendVY == \E v \in Vals : SendCall("sendVY", v)
sendAZ == \E v \in Vals : SendCall("sendAZ", v)
\* sendV, sendL and sendW only call sendVX, sendVY and sendAZ
sendV == \E v \in Vals : SendCall("sendVX", v)
sendL == \E v \in Vals : SendCall("sendVY", v)
sendW == \E v \in Vals : SendCall("sendAZ", v)

\* self.lock.acquire() of a send
SendAcquire ==
    /\ spc = "acquire" /\ mlock = "free"
    /\ mlock' = "send" /\ spc' = "write"
    /\ UNCHANGED <<ppc, pvel, pidx, tw, cmdHist>>
    /\ UNCHANGED <<heap, data, sop, sarg>>
    /\ UNCHANGED <<quatVars, mainVars, lifeVars, lisVars>>

\* the assignment of a send: lines 206, 252, 265, 278
SendWrite ==
    /\ spc = "write"
    /\ CASE sop = "sendVelocities" -> data' = sarg /\ UNCHANGED heap
         [] sop = "sendVX" -> heap' = [heap EXCEPT ![data].vx = sarg] /\ UNCHANGED data
         [] sop = "sendVY" -> heap' = [heap EXCEPT ![data].vy = sarg] /\ UNCHANGED data
         [] sop = "sendAZ" -> heap' = [heap EXCEPT ![data].vz = sarg] /\ UNCHANGED data
    /\ spc' = "release"
    /\ cmdHist' = IF ppc \in {"convert", "release"}
                  THEN cmdHist \cup {heap'[data']} ELSE cmdHist
    /\ UNCHANGED <<ppc, pvel, pidx, tw, mlock, sop, sarg>>
    /\ UNCHANGED <<quatVars, mainVars, lifeVars, lisVars>>

\* self.lock.release() of a send, and its return
SendRelease ==
    /\ spc = "release"
    /\ mlock' = "free" /\ spc' = "idle"
    /\ UNCHANGED <<ppc, pvel, pidx, tw, cmdHist>>
    /\ UNCHANGED <<heap, data, sop, sarg>>
    /\ UNCHANGED <<quatVars, mainVars, lifeVars, lisVars>>

(***************************************************************************)
(* ListenerLaser / ListenerPose3d                                          *)
(***************************************************************************)
\* the threads the middleware runs callbacks on (one per publisher connection)
CbThreads == {"conn1", "conn2"}
\* the threads that read the listeners: Sensors and MyAlgorithm both hold them
Readers == {"sensors", "algorithm"}
MsgIds == 1..NumMsg

\* the message with number i on the listener's topic
Message(kind, i) == IF kind = "laser" THEN LaserScan(i) ELSE Odometry(i)
\* line 81 / line 397
Translate(kind, msg) ==
    IF kind = "laser" THEN laserScan2LaserData(msg) ELSE odometry2Pose3D(msg)
\* line 67 / line 383
DefaultData(kind) == IF kind = "laser" THEN LaserData ELSE Pose3d

\* the state after __init__, which ends with start()
LisInit ==
    /\ lkind \in {"laser", "pose3d"}
    /\ ldata = DefaultData(lkind)
    /\ nsubs = 1 /\ lsub = 1 /\ registered = {1}
    /\ llock = "free"
    /\ cbpc = [c \in CbThreads |-> "idle"]
    /\ cbmsg = [c \in CbThreads |-> 0]
    /\ cblocal = [c \in CbThreads |-> DefaultData(lkind)]
    /\ rdpc = [r \in Readers |-> "idle"]
    /\ rdlocal = [r \in Readers |-> DefaultData(lkind)]
    /\ rdstamp = [r \in Readers |-> 0]
    /\ ncb = 0 /\ nstore = 0 /\ completed = 0 /\ lastRet = 0
    /\ lastLife = "start"
LisRest == LisInit /\ lkind = "laser"

\* start(): self.sub = rospy.Subscriber(...)
ListenerStart ==
    /\ nsubs < MaxSubs
    /\ nsubs' = nsubs + 1
    /\ lsub' = nsubs + 1
    /\ registered' = registered \cup {nsubs + 1}
    /\ lastLife' = "start"
    /\ UNCHANGED <<lkind, ldata, llock, cbpc, cbmsg, cblocal, rdpc, rdlocal,
                   rdstamp, ncb, nstore, completed, lastRet>>
    /\ UNCHANGED <<quatVars, mainVars, pubVars, sendVars, lifeVars>>

\* stop(): self.sub.unregister()
ListenerStop ==
    /\ registered' = registered \ {lsub}
    /\ lastLife' = "stop"
    /\ UNCHANGED <<lkind, ldata, lsub, nsubs, llock, cbpc, cbmsg, cblocal, rdpc,
                   rdlocal, rdstamp, ncb, nstore, completed, lastRet>>
    /\ UNCHANGED <<quatVars, mainVars, pubVars, sendVars, lifeVars>>

\* a registered subscription hands message i to __callback on thread c,
\* which translates it (line 81 / 397)
CbBegin(c) ==
    /\ cbpc[c] = "idle" /\ ncb < MaxCallbacks
    /\ registered # {}
    /\ \E i \in MsgIds :
          /\ cbmsg' = [cbmsg EXCEPT ![c] = i]
          /\ cblocal' = [cblocal EXCEPT ![c] = Translate(lkind, Message(lkind, i))]
    /\ cbpc' = [cbpc EXCEPT ![c] = "acquire"]
    /\ ncb' = ncb + 1
    /\ UNCHANGED <<lkind, ldata, lsub, registered, nsubs, llock, rdpc, rdlocal,
                   rdstamp, nstore, completed, lastRet, lastLife>>
    /\ UNCHANGED <<quatVars, mainVars, pubVars, sendVars, lifeVars>>

\* line 83 / 399: self.lock.acquire()
CbAcquire(c) ==
    /\ cbpc[c] = "acquire" /\ llock = "free"
    /\ llock' = c
    /\ cbpc' = [cbpc EXCEPT ![c] = "store"]
    /\ UNCHANGED <<lkind, ldata, lsub, registered, nsubs, cbmsg, cblocal, rdpc,
                   rdlocal, rdstamp, ncb, nstore, completed, lastRet, lastLife>>
    /\ UNCHANGED <<quatVars, mainVars, pubVars, sendVars, lifeVars>>

\* line 84 / 400: self.data = laser
CbStore(c) ==
    /\ cbpc[c] = "store"
    /\ ldata' = cblocal[c]
    /\ nstore' = nstore + 1
    /\ cbpc' = [cbpc EXCEPT ![c] = "release"]
    /\ UNCHANGED <<lkind, lsub, registered, nsubs, llock, cbmsg, cblocal, rdpc,
                   rdlocal, rdstamp, ncb, completed, lastRet, lastLife>>
    /\ UNCHANGED <<quatVars, mainVars, pubVars, sendVars, lifeVars>>

\* line 85 / 401: self.lock.release(), the callback's last statement
CbRelease(c) ==
    /\ cbpc[c] = "release"
    /\ llock' = "free"
    /\ completed' = cbmsg[c]
    /\ cbpc' = [cbpc EXCEPT ![c] = "idle"]
    /\ cbmsg' = [cbmsg EXCEPT ![c] = 0]
    /\ cblocal' = [cblocal EXCEPT ![c] = DefaultData(lkind)]
    /\ UNCHANGED <<lkind, ldata, lsub, registered, nsubs, rdpc, rdlocal, rdstamp,
                   ncb, nstore, lastRet, lastLife>>
    /\ UNCHANGED <<quatVars, mainVars, pubVars, sendVars, lifeVars>>

\* getLaserData() / getPose3d() is called
RdCall(r) ==
    /\ rdpc[r] = "idle"
    /\ rdpc' = [rdpc EXCEPT ![r] = "acquire"]
    /\ UNCHANGED <<lkind, ldata, lsub, registered, nsubs, llock, cbpc, cbmsg,
                   cblocal, rdlocal, rdstamp, ncb, nstore, completed, lastRet,
                   lastLife>>
    /\ UNCHANGED <<quatVars, mainVars, pubVars, sendVars, lifeVars>>

\* line 108 / 424: self.lock.acquire()
RdAcquire_nolock(r) ==
    /\ rdpc[r] = "acquire"
    /\ rdpc' = [rdpc EXCEPT ![r] = "read"]
    /\ UNCHANGED <<lkind, ldata, lsub, registered, nsubs, llock, cbpc, cbmsg,
                   cblocal, rdlocal, rdstamp, ncb, nstore, completed, lastRet,
                   lastLife>>
    /\ UNCHANGED <<quatVars, mainVars, pubVars, sendVars, lifeVars>>

RdAcquire(r) ==
    /\ rdpc[r] = "acquire" /\ llock = "free"
    /\ llock' = r
    /\ rdpc' = [rdpc EXCEPT ![r] = "read"]
    /\ UNCHANGED <<lkind, ldata, lsub, registered, nsubs, cbpc, cbmsg, cblocal,
                   rdlocal, rdstamp, ncb, nstore, completed, lastRet, lastLife>>
    /\ UNCHANGED <<quatVars, mainVars, pubVars, sendVars, lifeVars>>

\* line 109 / 425: laser = self.data
RdRead(r) ==
    /\ rdpc[r] = "read"
    /\ rdlocal' = [rdlocal EXCEPT ![r] = ldata]
    /\ rdstamp' = [rdstamp EXCEPT ![r] = nstore]
    /\ rdpc' = [rdpc EXCEPT ![r] = "release"]
    /\ UNCHANGED <<lkind, ldata, lsub, registered, nsubs, llock, cbpc, cbmsg,
                   cblocal, ncb, nstore, completed, lastRet, lastLife>>
    /\ UNCHANGED <<quatVars, mainVars, pubVars, sendVars, lifeVars>>

\* lines 110-112 / 426-428: self.lock.release(); return laser
RdRelease(r) ==
    /\ rdpc[r] = "release"
    /\ llock' = "free"
    /\ lastRet' = rdstamp[r]
    /\ rdpc' = [rdpc EXCEPT ![r] = "idle"]
    /\ rdlocal' = [rdlocal EXCEPT ![r] = DefaultData(lkind)]
    /\ rdstamp' = [rdstamp EXCEPT ![r] = 0]
    /\ UNCHANGED <<lkind, ldata, lsub, registered, nsubs, cbpc, cbmsg, cblocal,
                   ncb, nstore, completed, lastLife>>
    /\ UNCHANGED <<quatVars, mainVars, pubVars, sendVars, lifeVars>>

(***************************************************************************)
(* Specifications                                                          *)
(***************************************************************************)
\* the quaternion conversions on every orientation of the bounded set
InitQuat == QuatInit /\ MainRest /\ LifeBuilt /\ PubRest /\ SendRest /\ LisRest
NextQuat == Convert
SpecQuat == InitQuat /\ [][NextQuat]_vars

\* main builds the motors client; lifecycle calls, getters and publish() follow
InitClient == QuatRest /\ MainInit /\ LifeInit /\ PubRest /\ SendRest /\ LisRest
NextClient ==
    \/ Main \/ getMaxW \/ getMaxV
    \/ MotorsStart \/ MotorsStop
    \/ PubCall \/ PubAcquire \/ PubConvert \/ PubRelease
SpecClient == InitClient /\ [][NextClient]_vars

\* a built motors client: publish() against the sends of another thread
InitMotors == QuatRest /\ MainRest /\ LifeBuilt /\ PubRest /\ SendInit /\ LisRest
NextMotors ==
    \/ PubCall \/ PubAcquire \/ PubConvert \/ PubRelease
    \/ sendVelocities \/ sendVX \/ sendVY \/ sendAZ
    \/ sendV \/ sendL \/ sendW
    \/ SendAcquire \/ SendWrite \/ SendRelease
SpecMotors == InitMotors /\ [][NextMotors]_vars

\* a listener: lifecycle calls, callbacks and readers
InitListener == QuatRest /\ MainRest /\ LifeBuilt /\ PubRest /\ SendRest /\ LisInit
NextListener ==
    \/ ListenerStart \/ ListenerStop
    \/ \E c \in CbThreads : CbBegin(c) \/ CbAcquire(c) \/ CbStore(c) \/ CbRelease(c)
    \/ \E r \in Readers : RdCall(r) \/ RdAcquire(r) \/ RdRead(r) \/ RdRelease(r)
SpecListener == InitListener /\ [][NextListener]_vars

Init == InitQuat \/ InitClient \/ InitMotors \/ InitListener
Next == NextQuat \/ NextClient \/ NextMotors \/ NextListener
Spec == Init /\ [][Next]_vars

(***************************************************************************)
(* Claims                                                                  *)
(***************************************************************************)
\* what the callback that completed last stored, or the default value
LatestCompleted ==
    IF completed = 0 THEN DefaultData(lkind)
    ELSE Translate(lkind, Message(lkind, completed))

\* C1: a reader call that is about to return (it has read self.data and
\* still holds the lock) returns the translation of the message of the
\* callback that completed last, or the default value when none has
\* completed, and the value it returns was not stored before the value the
\* previous return gave.
C1_ReaderReturnsLatest ==
    \A r \in Readers :
        rdpc[r] = "release" =>
            /\ rdlocal[r] = LatestCompleted
            /\ rdstamp[r] >= lastRet

\* C1 witness: a reader is about to return a translated message that is
\* newer than the non-default value returned before, while a callback with
\* another message waits for the lock.
C1_Witness ==
    \E r \in Readers :
        /\ rdpc[r] = "release"
        /\ completed # 0
        /\ lastRet >= 1 /\ rdstamp[r] > lastRet
        /\ \E c \in CbThreads : cbpc[c] = "acquire" /\ cbmsg[c] # completed

\* C2: when publish() has built its Twist and the last send, finished before
\* publish() took the lock, was sendAZ(az) or sendW(az), the Twist's
\* angular.z is az.
C2_SendAZSetsAngularZ ==
    (ppc = "release" /\ spc = "idle" /\ sop = "sendAZ") => tw.angular.z = sarg

\* C3: the Twist publish() is about to emit is the translation of the whole stored
\* command as it stood at one instant of the conversion.
C3_TwistIsOneSnapshot ==
    ppc = "release" => tw \in {cmdvel2Twist(c) : c \in cmdHist}

\* C3 witness: publish() has built the Twist of a command a sendVelocities
\* installed, and a further send is waiting for the lock publish() holds.
C3_Witness ==
    /\ ppc = "release" /\ mlock = "publish"
    /\ spc = "acquire"
    /\ data # 0
    /\ tw # Twist
    /\ tw = cmdvel2Twist(Command)

\* C4: once stop() has been called, a start() raises and leaves the kill
\* event set.
C4_StoppedStaysStopped ==
    (stopCalled /\ lastCall = "start") => (startRaised /\ kill_event)

\* C5: after stop() no subscription of the listener is registered.
C5_StopUnregistersAll == lastLife = "stop" => registered = {}

\* C6: the assignment of sendVX, sendVY or sendAZ leaves every CMDVel object
\* of the caller as it was.
C6_SendsLeaveCallerObjects ==
    [][(spc = "write" /\ spc' = "release" /\ sop \in {"sendVX", "sendVY", "sendAZ"})
         => \A o \in VelObjs : heap'[o] = heap[o]]_vars

\* the component a single-component setter names
Named(op) == CASE op = "sendVX" -> "vx" [] op = "sendVY" -> "vy" [] op = "sendAZ" -> "az"

\* C7: the assignment of sendVX, sendVY or sendAZ (reached from sendV, sendL
\* and sendW too) sets the component it names to its argument and leaves the
\* other five components of the stored command as they were.
C7_SetterChangesOnlyItsComponent ==
    [][(spc = "write" /\ spc' = "release" /\ sop \in {"sendVX", "sendVY", "sendAZ"})
         => heap'[data'] = [heap[data] EXCEPT ![Named(sop)] = sarg]]_vars

\* C8: for every quaternion whose two intermediate terms are not both zero,
\* quat2Yaw and quat2Roll give atan2 of the two terms.
C8_AnglesAreAtan2 ==
    qpc = "done" =>
        LET z0 == rotateZa0(quat[1], quat[2], quat[3], quat[4])
            z1 == rotateZa1(quat[1], quat[2], quat[3], quat[4])
            x0 == rotateXa0(quat[1], quat[2], quat[3], quat[4])
            x1 == rotateXa1(quat[1], quat[2], quat[3], quat[4])
        IN  /\ (z0 # 0 \/ z1 # 0) => angles.yaw = atan2(z0, z1)
            /\ (x0 # 0 \/ x1 # 0) => angles.roll = atan2(x0, x1)

\* C9: the motors client holds the configured limit whenever the
\* configuration provides one and the default only when it provides none,
\* and the getters return those values.
C9_ConfiguredLimitsAreUsed ==
    mpc = "run" =>
        LET w == IF cfgW.provided THEN cfgW.value ELSE DefaultMaxW
            v == IF cfgV.provided THEN cfgV.value ELSE DefaultMaxV
        IN  /\ maxW = w /\ maxV = v
            /\ ret.op = "getMaxW" => ret.value = w
            /\ ret.op = "getMaxV" => ret.value = v

=============================================================================
